---- MODULE Spec2Model ----
(***************************************************************************)
(* A model of replete.flock.FileLock (src/replete/flock.py) and of the     *)
(* writer/reader scenario of src/tests/test_flock.py.                      *)
(*                                                                         *)
(* A FileLock object carries _file_path, _fd and _lock_code.  The          *)
(* read_lock / write_lock properties return a copy with _lock_code set.    *)
(* acquire() opens the lock file (a new open file description) and calls   *)
(* the blocking fcntl.flock on it; release() unlocks and closes.  The      *)
(* kernel's flock table is modelled by held (the lock owned by the         *)
(* current descriptor of each object) and orphans (descriptors no object   *)
(* refers to any more but that are still open).                            *)
(***************************************************************************)
EXTENDS Integers, Sequences, FiniteSets, TLC

\* ---------------------------------------------------------------- bounds
MaxObjs == 4       \* FileLock objects (constructed or copied) in Spec
NumThreads == 2    \* callers (threads or processes) in Spec
MaxOrphans == 1    \* unreferenced, still open descriptors per file and mode
NumWriters == 2    \* test_parallel: _increase_file workers
NumReaders == 1    \* test_parallel: _read_file workers
NumIncrease == 2   \* increments per writer
MaxCycles == 2     \* acquire/release cycles counted per handle in LifeSpec
MaxSeqLen == 2     \* elements of a list or tuple, entries of a dict, in HashSpec
MaxCalls == 3      \* consistent_hash calls made in one behaviour of HashSpec
NumTasks == 3      \* tasks that call one LazyWrapAsync instance in AioSpec
MaxAwaits == 2     \* suspensions of one run of the generate coroutine
MaxCount == 2      \* direct generate() calls made by the test around the tasks
NumInputs == 3     \* entries of args_list / kwargs_list given to futures_processing
MaxClasses == 2    \* classes defined under the registry bases in RegSpec
MaxRegCalls == 3   \* register_class calls made in one behaviour of RegSpec
NumCallers == 2    \* threads that call check_rate on one RateLimiter in RateSpec
MaxRateCalls == 3  \* check_rate calls started in one behaviour of RateSpec
MaxTime == 4       \* ticks of the clock in RateSpec
MaxWeight == 2     \* the largest weight passed to check_rate

\* ------------------------------------------------------------- constants
None == "None"
LOCK_SH == "LOCK_SH"
LOCK_EX == "LOCK_EX"
LockCodes == {LOCK_SH, LOCK_EX}

Threads == 1..NumThreads
\* A path's final name, split at its dots: tmp.txt.lock is <<"tmp","txt","lock">>.
TargetPaths == {<<"tmp", "txt", "lock">>, <<"tmp", "txt">>}
TestLockPath == <<"tmp", "txt", "lock">>

VARIABLES
    nobjs,       \* number of FileLock objects created so far (ids 1..nobjs)
    file_path,   \* file_path[o]: the object's _file_path
    lock_code,   \* lock_code[o]: the object's _lock_code (None, LOCK_SH, LOCK_EX)
    fd,          \* fd[o]: the object's _fd (None or "open")
    chain,       \* chain[o]: the constructed FileLock object o was copied from
    owner,       \* owner[o]: the caller that created o and calls its methods
    pc,          \* pc[o]: "waiting" while an acquire() on o sleeps in flock
    held,        \* held[o]: the flock the kernel records for o's descriptor
    orphans,     \* orphans[<<file, mode>>]: open, locked, unreferenced descriptors
    error,       \* the exception raised most recently: the call and the error
    stack,       \* stack[t]: the handles of the with-blocks caller t is inside
    exc,         \* exc[t]: nesting depth of the with block in which the exception
                 \*         now propagating in caller t was raised; 0 when none
    wpc,         \* scenario: wpc[w], the worker's position
    iter,        \* scenario: iter[w], increments done by writer w
    counter,     \* scenario: the number stored in the shared file
    last_line,   \* scenario: last_line[w], the number w read
    result,      \* scenario: result[w], the worker's return value
    timedout,    \* scenario: timedout[r], time() has passed start + TIMEOUT
    cycles,      \* lifecycle: cycles[h], acquire/release cycles handle h completed
    arg,         \* hashing: arg[i], the i-th invocation (args, kwargs) under study
    out,         \* hashing: out[i], what the latest call on arg[i] returned or raised
    hasher,      \* hashing: the accumulator of the latest consistent_hash_raw call
    ncalls,      \* hashing: the number of consistent_hash calls made so far
    type_name_dependence, \* hashing: the type_name_dependence argument of RawSpec's calls
    tpc,         \* aio: tpc[t], the position of task t in LazyWrapAsync.__call__
    tres,        \* aio: tres[t], what the call of task t returned
    generate_done, \* aio: LazyWrapAsync._generate_done
    value,       \* aio: LazyWrapAsync._value
    locked,      \* aio: _write_lock._locked
    waiters,     \* aio: _write_lock._waiters, the tasks queued on the lock
    woken,       \* aio: the waiters whose future has a result and who have not run yet
    started,     \* aio: how many times the generate coroutine was started by the wrapper
    count,       \* aio: the test's itertools.count(), the next number it gives
    gen_awaits,  \* aio: suspensions taken so far by the running generate coroutine
    args_list,   \* futures: args_list[i], the positional argument of input i
    max_workers, \* futures: the size of the thread pool
    in_order,    \* futures: the in_order argument
    only_log_exceptions, \* futures: the only_log_exceptions argument
    results,     \* futures: results[i], the state or outcome of the i-th future
    handled,     \* futures: the futures as_completed has handed to the loop
    cache_results, \* futures: cache_results, a function from idx to func_result
    current_result_idx, \* futures: current_result_idx
    yielded,     \* futures: the values the generator has yielded, in order
    gen_state,   \* futures: the generator: "running", "done" or "raised"
    classes,     \* register: classes[c], the classes created, with their attributes
    register_data, \* register: register_data[b], the _register_data dict of base b
    reg_error,   \* register: the exception of the latest class statement or call
    attempt,     \* register: the latest register_class call that reached line 50
    nreg,        \* register: the number of such calls so far
    now,         \* rate: time.time(), in ticks
    period_length, \* rate: RateLimiter._period_seconds, in ticks
    max_weight,  \* rate: RateLimiter._max_weight
    max_calls,   \* rate: RateLimiter._max_calls (0 when it is None)
    calls,       \* rate: RateLimiter._calls, a deque of <<weight, time>>
    wait_lock,   \* rate: the thread that holds RateLimiter._wait_lock, or 0
    rpc,         \* rate: rpc[t], the position of thread t in check_rate
    rweight,     \* rate: rweight[t], the weight argument of thread t's call
    wake,        \* rate: wake[t], the time at which thread t's sleep ends
    admitted,    \* rate: every call appended to _calls so far, <<weight, time>>
    rate_error   \* rate: the exception that left the latest failed check_rate

objvars == <<nobjs, file_path, lock_code, fd, chain, owner, pc, held, orphans, error>>
scopevars == <<stack, exc>>
scenvars == <<wpc, iter, counter, last_line, result, timedout>>
lifevars == <<cycles>>
hashvars == <<arg, out, hasher, ncalls, type_name_dependence>>
aiovars == <<tpc, tres, generate_done, value, locked, waiters, woken, started, count,
             gen_awaits>>
futvars == <<args_list, max_workers, in_order, only_log_exceptions, results, handled,
             cache_results, current_result_idx, yielded, gen_state>>
regvars == <<classes, register_data, reg_error, attempt, nreg>>
ratevars == <<now, period_length, max_weight, max_calls, calls, wait_lock, rpc, rweight,
              wake, admitted, rate_error>>
libvars == <<aiovars, futvars, regvars, ratevars>>
auxvars == <<lifevars, hashvars, libvars>>
vars == <<nobjs, file_path, lock_code, fd, chain, owner, pc, held, orphans, error,
          stack, exc, wpc, iter, counter, last_line, result, timedout, cycles,
          arg, out, hasher, ncalls, type_name_dependence,
          tpc, tres, generate_done, value, locked, waiters, woken, started, count,
          gen_awaits,
          args_list, max_workers, in_order, only_log_exceptions, results, handled,
          cache_results, current_result_idx, yielded, gen_state,
          classes, register_data, reg_error, attempt, nreg,
          now, period_length, max_weight, max_calls, calls, wait_lock, rpc, rweight,
          wake, admitted, rate_error>>

\* self._value = None; also a call that has not returned.
Unset == -1

\* No LazyWrapAsync instance exists.
AioIdle ==
    /\ tpc = <<>>
    /\ tres = <<>>
    /\ generate_done = FALSE
    /\ value = Unset
    /\ locked = FALSE
    /\ waiters = <<>>
    /\ woken = {}
    /\ started = 0
    /\ count = 0
    /\ gen_awaits = 0

\* futures_processing has not been called.
FutIdle ==
    /\ args_list = <<>>
    /\ max_workers = 0
    /\ in_order = FALSE
    /\ only_log_exceptions = FALSE
    /\ results = <<>>
    /\ handled = {}
    /\ cache_results = <<>>
    /\ current_result_idx = 0
    /\ yielded = <<>>
    /\ gen_state = "idle"

\* No Register subclass has been defined.
RegIdle ==
    /\ classes = <<>>
    /\ register_data = <<>>
    /\ reg_error = "none"
    /\ attempt = <<>>
    /\ nreg = 0

\* No RateLimiter exists.
RateIdle ==
    /\ now = 0
    /\ period_length = 0
    /\ max_weight = 0
    /\ max_calls = 0
    /\ calls = <<>>
    /\ wait_lock = 0
    /\ rpc = <<>>
    /\ rweight = <<>>
    /\ wake = <<>>
    /\ admitted = <<>>
    /\ rate_error = "none"

\* None of the library's other helpers is in use.
LibIdle == AioIdle /\ FutIdle /\ RegIdle /\ RateIdle

\* ------------------------------------------------------- pure functions
\* pathlib's with_suffix: the final suffix is replaced, or the suffix is added
\* to a name that has none.
with_suffix(p, s) ==
    IF Len(p) > 1 THEN SubSeq(p, 1, Len(p) - 1) \o <<s>> ELSE p \o <<s>>

LockFiles == {with_suffix(P, "lock") : P \in TargetPaths}

\* (mutant) a kernel that has exclusive locks only
ConflictsAlways(req, other) == TRUE

\* flock(2): two locks on one file conflict unless both are shared.
Conflicts(req, other) == req = LOCK_EX \/ other = LOCK_EX

\* The kernel can grant the request of h's descriptor: no other open file
\* description of the same file (the current descriptor of another object, or
\* one of the unreferenced descriptors orph) holds a conflicting lock.
FlockFree(h, orph) ==
    /\ \A o \in 1..nobjs :
           (o # h /\ file_path[o] = file_path[h] /\ held[o] # None)
               => ~Conflicts(lock_code[h], held[o])
    /\ \A m \in LockCodes :
           orph[<<file_path[h], m>>] > 0 => ~Conflicts(lock_code[h], m)

\* Caller t is not inside a call (a blocking acquire) on one of its objects.
ThreadFree(t) == \A o \in 1..nobjs : owner[o] = t => pc[o] = "idle"

InScope(h) == \E t \in DOMAIN stack : \E i \in 1..Len(stack[t]) : stack[t][i] = h

Raised(op, res) == [op |-> op, res |-> res]

\* ------------------------------------------------ FileLock's methods
\* __init__: a fresh object new for target path P, made by caller t.
init(new, t, P) ==
    /\ file_path' = [file_path EXCEPT ![new] = with_suffix(P, "lock")]
    /\ fd' = [fd EXCEPT ![new] = None]
    /\ lock_code' = [lock_code EXCEPT ![new] = None]
    /\ chain' = [chain EXCEPT ![new] = new]
    /\ owner' = [owner EXCEPT ![new] = t]
    /\ pc' = [pc EXCEPT ![new] = "idle"]
    /\ held' = [held EXCEPT ![new] = None]
    /\ UNCHANGED <<orphans, error>>

\* (mutant) an accessor that copies without looking at _fd
get_lock_unchecked(o, new, code, name) ==
    /\ file_path' = [file_path EXCEPT ![new] = with_suffix(file_path[o], "lock")]
    /\ fd' = [fd EXCEPT ![new] = None]
    /\ lock_code' = [lock_code EXCEPT ![new] = code]
    /\ chain' = [chain EXCEPT ![new] = chain[o]]
    /\ owner' = [owner EXCEPT ![new] = owner[o]]
    /\ pc' = [pc EXCEPT ![new] = "idle"]
    /\ held' = [held EXCEPT ![new] = None]
    /\ UNCHANGED <<orphans, error>>

\* read_lock / write_lock: raise on an acquired object; otherwise copy.copy,
\* which rebuilds the object through __reduce__ and __init__ (so _fd is None and
\* the path goes through with_suffix again), then set _lock_code on the copy.
get_lock(o, new, code, name) ==
    IF fd[o] # None
    THEN /\ error' = Raised(name, "ValueError_acquired")
         /\ UNCHANGED <<file_path, fd, lock_code, chain, owner, pc, held, orphans>>
    ELSE /\ file_path' = [file_path EXCEPT ![new] = with_suffix(file_path[o], "lock")]
         /\ fd' = [fd EXCEPT ![new] = None]
         /\ lock_code' = [lock_code EXCEPT ![new] = code]
         /\ chain' = [chain EXCEPT ![new] = chain[o]]
         /\ owner' = [owner EXCEPT ![new] = owner[o]]
         /\ pc' = [pc EXCEPT ![new] = "idle"]
         /\ held' = [held EXCEPT ![new] = None]
         /\ UNCHANGED <<orphans, error>>

read_lock(o, new) == get_lock(o, new, LOCK_SH, "read_lock")

write_lock(o, new) == get_lock(o, new, LOCK_EX, "write_lock")

\* (mutant) the flock call returns without the kernel having checked for
\* conflicting locks
flock_unlocked(h, orph) ==
    /\ held' = [held EXCEPT ![h] = lock_code[h]]
    /\ pc' = [pc EXCEPT ![h] = "idle"]

\* fcntl.flock(self._fd, self._lock_code), blocking, on the descriptor acquire
\* has just opened: granted at once when no conflicting lock exists, otherwise
\* the caller sleeps in the kernel.
flock(h, orph) ==
    IF FlockFree(h, orph)
    THEN /\ held' = [held EXCEPT ![h] = lock_code[h]]
         /\ pc' = [pc EXCEPT ![h] = "idle"]
    ELSE /\ held' = [held EXCEPT ![h] = None]
         /\ pc' = [pc EXCEPT ![h] = "waiting"]

\* acquire: raise on a bare object; otherwise bind _fd to a newly opened file
\* and call flock on it.  A descriptor _fd was bound to before loses its only
\* reference: it is closed at once (reference counting) or stays open, with its
\* lock, until the collector finalizes it.
acquire(h) ==
    IF lock_code[h] = None
    THEN /\ error' = Raised("acquire", "ValueError_bare")
         /\ UNCHANGED <<fd, pc, held, orphans>>
    ELSE /\ fd' = [fd EXCEPT ![h] = "open"]
         /\ \/ UNCHANGED orphans
            \/ /\ held[h] # None
               /\ orphans[<<file_path[h], held[h]>>] < MaxOrphans
               /\ orphans' = [orphans EXCEPT ![<<file_path[h], held[h]>>] = @ + 1]
         /\ flock(h, orphans')
         /\ UNCHANGED error

\* The sleeping flock call is granted once no conflicting lock is left, and
\* acquire returns.
flock_wake(h) ==
    /\ pc[h] = "waiting"
    /\ FlockFree(h, orphans)
    /\ held' = [held EXCEPT ![h] = lock_code[h]]
    /\ pc' = [pc EXCEPT ![h] = "idle"]

\* What release() on h does now: the one error it can raise, or "ok".
release_result(h) == IF fd[h] = None THEN "ValueError_not_acquired" ELSE "ok"

\* (mutant) release without the check of _fd: on an unacquired handle the
\* unlock is attempted on None and fails inside fcntl
release_unchecked(h) ==
    IF fd[h] = None
    THEN /\ error' = Raised("release", "TypeError")
         /\ UNCHANGED <<fd, held>>
    ELSE /\ held' = [held EXCEPT ![h] = None]
         /\ fd' = [fd EXCEPT ![h] = None]
         /\ UNCHANGED error

\* (mutant) release that forgets the handle's descriptor without unlocking or
\* closing it
release_leaks(h) ==
    IF fd[h] = None
    THEN /\ error' = Raised("release", "ValueError_not_acquired")
         /\ UNCHANGED <<fd, held>>
    ELSE /\ fd' = [fd EXCEPT ![h] = None]
         /\ UNCHANGED <<held, error>>

\* release: raise when _fd is None; otherwise unlock, close, _fd = None.
release(h) ==
    IF release_result(h) # "ok"
    THEN /\ error' = Raised("release", release_result(h))
         /\ UNCHANGED <<fd, held>>
    ELSE /\ held' = [held EXCEPT ![h] = None]
         /\ fd' = [fd EXCEPT ![h] = None]
         /\ UNCHANGED error

\* __reduce__, and the object new that unpickling builds from what it
\* returned, in caller u: raise when _fd is set; otherwise the class is
\* called with _file_path alone, so __init__ runs on it.
reduce(o, new, u) ==
    IF fd[o] # None
    THEN /\ error' = Raised("reduce", "ValueError_acquired")
         /\ UNCHANGED <<nobjs, file_path, lock_code, fd, chain, owner, pc, held, orphans>>
    ELSE /\ nobjs < MaxObjs
         /\ nobjs' = nobjs + 1
         /\ init(new, u, file_path[o])

\* ------------------------------------------------ Spec: callers of the API
Objs == 1..MaxObjs

Init ==
    /\ nobjs = 0
    /\ file_path = [o \in Objs |-> <<>>]
    /\ lock_code = [o \in Objs |-> None]
    /\ fd = [o \in Objs |-> None]
    /\ chain = [o \in Objs |-> o]
    /\ owner = [o \in Objs |-> 0]
    /\ pc = [o \in Objs |-> "idle"]
    /\ held = [o \in Objs |-> None]
    /\ orphans = [k \in LockFiles \X LockCodes |-> 0]
    /\ error = Raised("none", "none")
    /\ stack = [t \in Threads |-> <<>>]
    /\ exc = [t \in Threads |-> 0]
    /\ wpc = <<>>
    /\ iter = <<>>
    /\ counter = 0
    /\ last_line = <<>>
    /\ result = <<>>
    /\ timedout = <<>>
    /\ cycles = <<>>
    /\ arg = <<>>
    /\ out = <<>>
    /\ hasher = <<>>
    /\ ncalls = <<>>
    /\ type_name_dependence = FALSE
    /\ LibIdle

\* Caller t can make a call: it is not blocked, and no exception is unwinding it.
CanCall(t) == ThreadFree(t) /\ exc[t] = 0

\* FileLock(P)
Construct(t, P) ==
    /\ CanCall(t)
    /\ nobjs < MaxObjs
    /\ nobjs' = nobjs + 1
    /\ init(nobjs + 1, t, P)
    /\ UNCHANGED <<scopevars, scenvars, auxvars>>

\* o.read_lock
ReadLock(t, o) ==
    /\ CanCall(t)
    /\ o \in 1..nobjs /\ owner[o] = t /\ ~InScope(o)
    /\ fd[o] = None => nobjs < MaxObjs
    /\ nobjs' = IF fd[o] = None THEN nobjs + 1 ELSE nobjs
    /\ read_lock(o, nobjs + 1)
    /\ UNCHANGED <<scopevars, scenvars, auxvars>>

\* o.write_lock
WriteLock(t, o) ==
    /\ CanCall(t)
    /\ o \in 1..nobjs /\ owner[o] = t /\ ~InScope(o)
    /\ fd[o] = None => nobjs < MaxObjs
    /\ nobjs' = IF fd[o] = None THEN nobjs + 1 ELSE nobjs
    /\ write_lock(o, nobjs + 1)
    /\ UNCHANGED <<scopevars, scenvars, auxvars>>

\* h.acquire()
Acquire(t, h) ==
    /\ CanCall(t)
    /\ h \in 1..nobjs /\ owner[h] = t /\ ~InScope(h)
    /\ acquire(h)
    /\ UNCHANGED <<nobjs, file_path, lock_code, chain, owner, scopevars, scenvars, auxvars>>

\* The kernel wakes the acquire() sleeping on h.
FlockWake(h) ==
    /\ h \in 1..nobjs
    /\ flock_wake(h)
    /\ UNCHANGED <<nobjs, file_path, lock_code, fd, chain, owner, orphans, error,
                   scopevars, scenvars, auxvars>>

\* h.release()
Release(t, h) ==
    /\ CanCall(t)
    /\ h \in 1..nobjs /\ owner[h] = t /\ ~InScope(h)
    /\ release(h)
    /\ UNCHANGED <<nobjs, file_path, lock_code, chain, owner, pc, orphans, scopevars, scenvars, auxvars>>

\* with h: ... (__enter__): acquire; the block is entered when acquire returns.
\* The handle of a with statement is written inline (with lock.read_lock:), so
\* the block has no name for it and only __exit__ touches it again.
Enter(t, h) ==
    /\ CanCall(t)
    /\ h \in 1..nobjs /\ owner[h] = t /\ ~InScope(h)
    /\ acquire(h)
    /\ stack' = IF lock_code[h] = None THEN stack
                ELSE [stack EXCEPT ![t] = Append(@, h)]
    /\ UNCHANGED <<nobjs, file_path, lock_code, chain, owner, exc, scenvars, auxvars>>

\* The block of the innermost with statement raises.
Raise(t) ==
    /\ CanCall(t)
    /\ stack[t] # <<>>
    /\ exc' = [exc EXCEPT ![t] = Len(stack[t])]
    /\ UNCHANGED <<objvars, stack, scenvars, auxvars>>

\* (mutant) __exit__ that releases only when the block ended normally
ExitSkipsOnError(t) ==
    /\ ThreadFree(t)
    /\ stack[t] # <<>>
    /\ LET h == stack[t][Len(stack[t])] IN
           /\ IF exc[t] # 0 THEN UNCHANGED <<fd, held, error>> ELSE release(h)
           /\ stack' = [stack EXCEPT ![t] = SubSeq(@, 1, Len(@) - 1)]
           /\ exc' = [exc EXCEPT ![t] = IF Len(stack[t]) > 1 THEN @ ELSE 0]
    /\ UNCHANGED <<nobjs, file_path, lock_code, chain, owner, pc, orphans, scenvars, auxvars>>

\* Control leaves the innermost with block, normally or by the exception that
\* is propagating (__exit__): release, whatever the arguments; the exception is
\* not swallowed and is caught outside the outermost block.
Exit(t) ==
    /\ ThreadFree(t)
    /\ stack[t] # <<>>
    /\ LET h == stack[t][Len(stack[t])] IN
           /\ release(h)
           /\ stack' = [stack EXCEPT ![t] = SubSeq(@, 1, Len(@) - 1)]
           /\ exc' = [exc EXCEPT ![t] = IF Len(stack[t]) > 1 THEN @ ELSE 0]
    /\ UNCHANGED <<nobjs, file_path, lock_code, chain, owner, pc, orphans, scenvars, auxvars>>

\* The collector finalizes an unreferenced descriptor: it is closed, and the
\* kernel drops its lock.
Collect(f, m) ==
    /\ orphans[<<f, m>>] > 0
    /\ orphans' = [orphans EXCEPT ![<<f, m>>] = @ - 1]
    /\ UNCHANGED <<nobjs, file_path, lock_code, fd, chain, owner, pc, held, error,
                   scopevars, scenvars, auxvars>>

Next ==
    \/ \E t \in Threads, P \in TargetPaths : Construct(t, P)
    \/ \E t \in Threads, o \in Objs : ReadLock(t, o)
    \/ \E t \in Threads, o \in Objs : WriteLock(t, o)
    \/ \E t \in Threads, h \in Objs : Acquire(t, h)
    \/ \E h \in Objs : FlockWake(h)
    \/ \E t \in Threads, h \in Objs : Release(t, h)
    \/ \E t \in Threads, h \in Objs : Enter(t, h)
    \/ \E t \in Threads : Raise(t)
    \/ \E t \in Threads : Exit(t)
    \/ \E f \in LockFiles, m \in LockCodes : Collect(f, m)

Spec == Init /\ [][Next]_vars

\* ------------------------------- ScenSpec: test_parallel's workers
\* Writers (_increase_file) and readers (_read_file), each in its own thread or
\* process, each with its own FileLock on tmp.txt.lock.  The handle of a with
\* statement is obtained through the property (lock.write_lock, lock.read_lock).
NumWorkers == NumWriters + NumReaders
Workers == 1..NumWorkers
Writers == 1..NumWriters
Readers == (NumWriters + 1)..NumWorkers
REQUIRED_TOTAL == NumWriters * NumIncrease

\* Worker w's FileLock object, and the handle of its current with statement
\* (the handle of the previous iteration is garbage once its block is left).
Root(w) == w
Slot(w) == NumWorkers + w

ScenInit ==
    /\ nobjs = 2 * NumWorkers
    /\ file_path = [o \in 1..(2 * NumWorkers) |-> <<>>]
    /\ lock_code = [o \in 1..(2 * NumWorkers) |-> None]
    /\ fd = [o \in 1..(2 * NumWorkers) |-> None]
    /\ chain = [o \in 1..(2 * NumWorkers) |-> o]
    /\ owner = [o \in 1..(2 * NumWorkers) |-> 0]
    /\ pc = [o \in 1..(2 * NumWorkers) |-> "idle"]
    /\ held = [o \in 1..(2 * NumWorkers) |-> None]
    /\ orphans = [k \in LockFiles \X LockCodes |-> 0]
    /\ stack = [w \in Workers |-> <<>>]
    /\ error = Raised("none", "none")
    /\ exc = [w \in Workers |-> 0]
    /\ wpc = [w \in Workers |-> "init"]
    /\ iter = [w \in Workers |-> 0]
    /\ counter = 0
    /\ last_line = [w \in Workers |-> 0]
    /\ result = [w \in Workers |-> "pending"]
    /\ timedout = [w \in Readers |-> FALSE]
    /\ cycles = <<>>
    /\ arg = <<>>
    /\ out = <<>>
    /\ hasher = <<>>
    /\ ncalls = <<>>
    /\ type_name_dependence = FALSE
    /\ LibIdle

\* lock = FileLock(path.parent / f"{path.name}.lock")
WInit(w) ==
    /\ wpc[w] = "init"
    /\ init(Root(w), w, TestLockPath)
    /\ wpc' = [wpc EXCEPT ![w] = "loop"]
    /\ UNCHANGED <<nobjs, scopevars, auxvars, iter, counter, last_line, result, timedout>>

\* for _ in range(NUM_INCREASE): with lock.write_lock ...: the loop test and the
\* property that makes the handle; return True after the last increment.
WLoop(w) ==
    /\ w \in Writers
    /\ wpc[w] = "loop"
    /\ IF iter[w] < NumIncrease
       THEN /\ fd[Slot(w)] = None
            /\ write_lock(Root(w), Slot(w))
            /\ wpc' = [wpc EXCEPT ![w] = "enter"]
            /\ UNCHANGED result
       ELSE /\ wpc' = [wpc EXCEPT ![w] = "done"]
            /\ result' = [result EXCEPT ![w] = "True"]
            /\ UNCHANGED <<file_path, lock_code, fd, chain, owner, pc, held, orphans, error>>
    /\ UNCHANGED <<nobjs, scopevars, auxvars, iter, counter, last_line, timedout>>

\* while time() < start + TIMEOUT: with lock.read_lock ...: the loop test and the
\* property that makes the handle; return False after the timeout.
RLoop(r) ==
    /\ r \in Readers
    /\ wpc[r] = "loop"
    /\ IF ~timedout[r]
       THEN /\ fd[Slot(r)] = None
            /\ read_lock(Root(r), Slot(r))
            /\ wpc' = [wpc EXCEPT ![r] = "enter"]
            /\ UNCHANGED result
       ELSE /\ wpc' = [wpc EXCEPT ![r] = "done"]
            /\ result' = [result EXCEPT ![r] = "False"]
            /\ UNCHANGED <<file_path, lock_code, fd, chain, owner, pc, held, orphans, error>>
    /\ UNCHANGED <<nobjs, scopevars, auxvars, iter, counter, last_line, timedout>>

\* with <handle>: __enter__ calls acquire
WEnter(w) ==
    /\ wpc[w] = "enter"
    /\ acquire(Slot(w))
    /\ wpc' = [wpc EXCEPT ![w] = "body"]
    /\ UNCHANGED <<nobjs, file_path, lock_code, chain, owner, scopevars, auxvars,
                   iter, counter, last_line, result, timedout>>

\* path.open("r+"), last_line = f.readline().strip(): once acquire has returned
WRead(w) ==
    /\ wpc[w] = "body"
    /\ pc[Slot(w)] = "idle"
    /\ last_line' = [last_line EXCEPT ![w] = counter]
    /\ wpc' = [wpc EXCEPT ![w] = IF w \in Writers THEN "write" ELSE "exit"]
    /\ UNCHANGED <<objvars, scopevars, auxvars, iter, counter, result, timedout>>

\* f.seek(0); f.write(f"{int(last_line or 0) + 1}\n")
WWrite(w) ==
    /\ w \in Writers
    /\ wpc[w] = "write"
    /\ counter' = last_line[w] + 1
    /\ wpc' = [wpc EXCEPT ![w] = "exit"]
    /\ UNCHANGED <<objvars, scopevars, auxvars, iter, last_line, result, timedout>>

\* The with block is left (__exit__ calls release).  A writer goes on to its
\* next increment; a reader returns True from inside the block when it read
\* REQUIRED_TOTAL, and otherwise sleeps (sleep(0.01)) before its next loop test.
WExit(w) ==
    /\ wpc[w] = "exit"
    /\ release(Slot(w))
    /\ IF w \in Writers
       THEN /\ iter' = [iter EXCEPT ![w] = @ + 1]
            /\ wpc' = [wpc EXCEPT ![w] = "loop"]
            /\ UNCHANGED result
       ELSE /\ UNCHANGED iter
            /\ IF last_line[w] = REQUIRED_TOTAL
               THEN /\ wpc' = [wpc EXCEPT ![w] = "done"]
                    /\ result' = [result EXCEPT ![w] = "True"]
               ELSE /\ wpc' = [wpc EXCEPT ![w] = "loop"]
                    /\ UNCHANGED result
    /\ UNCHANGED <<nobjs, file_path, lock_code, chain, owner, pc, orphans, scopevars, auxvars,
                   counter, last_line, timedout>>

\* The clock passes start + TIMEOUT of reader r.
Timeout(r) ==
    /\ r \in Readers
    /\ wpc[r] # "done"
    /\ ~timedout[r]
    /\ timedout' = [timedout EXCEPT ![r] = TRUE]
    /\ UNCHANGED <<objvars, scopevars, auxvars, wpc, iter, counter, last_line, result>>

Worker(w) ==
    \/ WInit(w)
    \/ WLoop(w)
    \/ RLoop(w)
    \/ WEnter(w)
    \/ WRead(w)
    \/ WWrite(w)
    \/ WExit(w)

\* The kernel grants a sleeping flock call.
Kernel(h) == FlockWake(h)

ScenNext ==
    \/ \E w \in Workers : Worker(w)
    \/ \E h \in 1..(2 * NumWorkers) : Kernel(h)
    \/ \E r \in Readers : Timeout(r)

ScenSpec == ScenInit /\ [][ScenNext]_vars

\* Every worker that can take a step eventually takes one, a flock call that
\* stays grantable is granted, and the clock advances.
FairScenSpec ==
    /\ ScenSpec
    /\ \A w \in Workers : WF_vars(Worker(w))
    /\ \A h \in 1..(2 * NumWorkers) : WF_vars(Kernel(h))
    /\ \A r \in Readers : WF_vars(Timeout(r))

\* ------------------------- LifeSpec: handles used through acquire/release
\* The callers of Spec without with blocks; every release that succeeds is
\* counted on its handle (the count stops at MaxCycles).
LifeInit ==
    /\ nobjs = 0
    /\ file_path = [o \in Objs |-> <<>>]
    /\ lock_code = [o \in Objs |-> None]
    /\ fd = [o \in Objs |-> None]
    /\ chain = [o \in Objs |-> o]
    /\ owner = [o \in Objs |-> 0]
    /\ pc = [o \in Objs |-> "idle"]
    /\ held = [o \in Objs |-> None]
    /\ orphans = [k \in LockFiles \X LockCodes |-> 0]
    /\ error = Raised("none", "none")
    /\ stack = [t \in Threads |-> <<>>]
    /\ exc = [t \in Threads |-> 0]
    /\ wpc = <<>>
    /\ iter = <<>>
    /\ counter = 0
    /\ last_line = <<>>
    /\ result = <<>>
    /\ timedout = <<>>
    /\ cycles = [o \in Objs |-> 0]
    /\ arg = <<>>
    /\ out = <<>>
    /\ hasher = <<>>
    /\ ncalls = <<>>
    /\ type_name_dependence = FALSE
    /\ LibIdle

\* h.release(), counted
LRelease(t, h) ==
    /\ CanCall(t)
    /\ h \in 1..nobjs /\ owner[h] = t
    /\ release(h)
    /\ cycles' = IF fd[h] # None /\ cycles[h] < MaxCycles
                 THEN [cycles EXCEPT ![h] = @ + 1]
                 ELSE cycles
    /\ UNCHANGED <<nobjs, file_path, lock_code, chain, owner, pc, orphans,
                   scopevars, scenvars, hashvars, libvars>>

LifeNext ==
    \/ \E t \in Threads, P \in TargetPaths : Construct(t, P)
    \/ \E t \in Threads, o \in Objs : ReadLock(t, o)
    \/ \E t \in Threads, o \in Objs : WriteLock(t, o)
    \/ \E t \in Threads, h \in Objs : Acquire(t, h)
    \/ \E h \in Objs : FlockWake(h)
    \/ \E t \in Threads, h \in Objs : LRelease(t, h)
    \/ \E f \in LockFiles, m \in LockCodes : Collect(f, m)

LifeSpec == LifeInit /\ [][LifeNext]_vars

\* --------------------------- PathSpec: handles sent to worker processes
\* The target paths of Spec and one more with the name of the second:
\* tmp.txt.lock, tmp.txt, tmp.csv.
AllPaths == TargetPaths \cup {<<"tmp", "csv">>}

\* pickle.loads(pickle.dumps(o)) with the copy arriving in caller u, as when
\* a handle is passed to a worker of a process pool.
Pickle(t, o, u) ==
    /\ CanCall(t)
    /\ o \in 1..nobjs /\ owner[o] = t
    /\ reduce(o, nobjs + 1, u)
    /\ UNCHANGED <<scopevars, scenvars, auxvars>>

PathNext ==
    \/ \E t \in Threads, P \in AllPaths : Construct(t, P)
    \/ \E t \in Threads, o \in Objs : ReadLock(t, o)
    \/ \E t \in Threads, o \in Objs : WriteLock(t, o)
    \/ \E t \in Threads, h \in Objs : Acquire(t, h)
    \/ \E h \in Objs : FlockWake(h)
    \/ \E t \in Threads, h \in Objs : Release(t, h)
    \/ \E f \in LockFiles, m \in LockCodes : Collect(f, m)
    \/ \E t \in Threads, o \in Objs, u \in Threads : Pickle(t, o, u)

PathSpec == Init /\ [][PathNext]_vars

\* ------------------------------------------------------ claims (Spec)
\* The handle is in the acquired state: acquire() has returned and release()
\* has not been called since.
Holds(h) == h \in 1..nobjs /\ fd[h] # None /\ pc[h] = "idle"

\* Two objects that are not of one caller's one chain, on one lock file.
OtherChain(a, b) ==
    /\ a # b
    /\ file_path[a] = file_path[b]
    /\ (owner[a] # owner[b] \/ chain[a] # chain[b])

SameChain(a, b) ==
    a # b /\ file_path[a] = file_path[b] /\ owner[a] = owner[b] /\ chain[a] = chain[b]

\* C1: while a handle holds the lock of a lock file in EXCLUSIVE mode, no handle
\* of another caller or of an independently constructed FileLock holds it in
\* any mode.
C1_MutualExclusion ==
    \A h1 \in 1..nobjs, h2 \in 1..nobjs :
        (Holds(h1) /\ lock_code[h1] = LOCK_EX /\ OtherChain(h1, h2)) => ~Holds(h2)

\* C1 witness: a write handle holds the lock while a handle of another caller
\* is inside acquire on the same file, kept out by the kernel.
C1_Witness ==
    \E h1 \in 1..nobjs, h2 \in 1..nobjs :
        /\ Holds(h1) /\ lock_code[h1] = LOCK_EX
        /\ OtherChain(h1, h2) /\ owner[h1] # owner[h2]
        /\ pc[h2] = "waiting"

\* C3: an acquire() (or the entry of a with block) on an unacquired read_lock
\* handle, made while another read_lock handle on the same lock file is
\* acquired, returns without waiting, and both handles are then acquired.
C3_SharedCompatible ==
    [][\A t \in Threads, h1 \in Objs, h2 \in Objs :
          ( /\ Holds(h1) /\ lock_code[h1] = LOCK_SH
            /\ h2 # h1 /\ h2 \in 1..nobjs /\ file_path[h2] = file_path[h1]
            /\ lock_code[h2] = LOCK_SH /\ fd[h2] = None
            /\ (Acquire(t, h2) \/ Enter(t, h2)) )
          => /\ fd'[h1] # None /\ pc'[h1] = "idle" /\ held'[h1] = LOCK_SH
             /\ fd'[h2] # None /\ pc'[h2] = "idle" /\ held'[h2] = LOCK_SH
      ]_vars

\* C3 witness: two distinct read handles of one lock file are both acquired.
C3_Witness ==
    \E h1 \in 1..nobjs, h2 \in 1..nobjs :
        /\ h1 # h2 /\ file_path[h1] = file_path[h2]
        /\ Holds(h1) /\ lock_code[h1] = LOCK_SH
        /\ Holds(h2) /\ lock_code[h2] = LOCK_SH
        /\ held[h1] = LOCK_SH /\ held[h2] = LOCK_SH

\* C4 (as claimed): the acquire of a write_lock handle, made while a handle of
\* another chain holds the lock, has raised instead of waiting for the lock.
C4_WriteWouldBlock ==
    \A h \in 1..nobjs :
        ( /\ lock_code[h] = LOCK_EX
          /\ \E o \in 1..nobjs : OtherChain(o, h) /\ Holds(o) )
        => pc[h] # "waiting"

\* C5 (as claimed): under an acquired write_lock handle, the acquire of a
\* read_lock handle of the same FileLock object by the same caller does not
\* wait on the OS lock.
C5_ReadUnderWrite ==
    \A w \in 1..nobjs, r \in 1..nobjs :
        (Holds(w) /\ lock_code[w] = LOCK_EX /\ SameChain(w, r) /\ lock_code[r] = LOCK_SH)
        => pc[r] # "waiting"

\* C6 (as claimed): while a read_lock handle has its descriptor from an acquire
\* made under an acquired write_lock handle of the same FileLock object,
\* release() on the write handle raises the unreleased-dependent error.
C6_ReleaseOrder ==
    \A w \in 1..nobjs, r \in 1..nobjs :
        ( /\ Holds(w) /\ lock_code[w] = LOCK_EX
          /\ SameChain(w, r) /\ lock_code[r] = LOCK_SH /\ fd[r] # None )
        => release_result(w) = "ValueError_unreleased"

\* C7 (as claimed): a handle whose acquire did not get the lock at once is as it
\* was before the call: no descriptor is open and release() raises not-acquired.
C7_NoPartialState ==
    \A h \in 1..nobjs :
        pc[h] = "waiting" =>
            (fd[h] = None /\ release_result(h) = "ValueError_not_acquired")

\* C8: when control leaves a with block, normally or by an exception, its
\* handle has been released: no descriptor, no OS lock, no call in progress.
C8_ScopedRelease ==
    [][\A t \in Threads :
          Exit(t) =>
              LET h == stack[t][Len(stack[t])] IN
                  /\ fd'[h] = None /\ held'[h] = None /\ pc'[h] = "idle"
                  /\ \A u \in Threads : \A i \in 1..Len(stack'[u]) : stack'[u][i] # h
      ]_vars

\* C8 witness: an exception raised in an inner with block is unwinding; __exit__
\* has released the inner block's handle and an outer block is still open.
C8_Witness ==
    \E t \in Threads :
        /\ stack[t] # <<>>
        /\ exc[t] > Len(stack[t])
        /\ \E h \in 1..nobjs :
               /\ owner[h] = t /\ lock_code[h] # None /\ ~InScope(h)
               /\ fd[h] = None /\ held[h] = None

\* C10: release() on a handle that is not acquired raises and changes neither
\* the handle nor the kernel's locks.
C10_ReleaseNotAcquired ==
    [][\A t \in Threads, h \in Objs :
          (Release(t, h) /\ fd[h] = None) =>
              /\ error' = Raised("release", "ValueError_not_acquired")
              /\ UNCHANGED <<nobjs, file_path, lock_code, fd, chain, owner, pc, held, orphans>>
      ]_vars

\* C10 witness: release() has just raised, while another handle holds a lock
\* that the failed call has left in place.
C10_Witness ==
    /\ error = Raised("release", "ValueError_not_acquired")
    /\ \E h \in 1..nobjs : Holds(h) /\ held[h] = lock_code[h]

\* C11: the read_lock or write_lock accessor, called on an object that holds an
\* acquired lock (in either mode), raises the already-acquired error: no handle
\* is made and nothing else changes.
C11_AccessorOnAcquired ==
    [][\A t \in Threads, o \in Objs :
          ((ReadLock(t, o) \/ WriteLock(t, o)) /\ Holds(o)) =>
              /\ error' \in {Raised("read_lock", "ValueError_acquired"),
                             Raised("write_lock", "ValueError_acquired")}
              /\ UNCHANGED <<nobjs, file_path, lock_code, fd, chain, owner, pc, held, orphans>>
      ]_vars

\* C11 witness: an accessor has just raised on a handle that holds its lock;
\* both modes of the holding handle are covered by the two disjuncts.
C11_Witness ==
    /\ error \in {Raised("read_lock", "ValueError_acquired"),
                  Raised("write_lock", "ValueError_acquired")}
    /\ \E h \in 1..nobjs : Holds(h) /\ held[h] = lock_code[h] /\ lock_code[h] # None

\* C12 (as claimed): while a handle obtained from a FileLock object holds the
\* lock, the acquire of a further write_lock handle of the same object by the
\* same caller has raised BlockingIOError instead of waiting for the OS lock.
C12_NestedWriteRaises ==
    \A h1 \in 1..nobjs, h2 \in 1..nobjs :
        ( /\ Holds(h1) /\ held[h1] \in LockCodes
          /\ SameChain(h1, h2) /\ lock_code[h2] = LOCK_EX )
        => pc[h2] # "waiting"

\* C13 (as claimed): while a handle of FileLock object A holds EXCLUSIVE, the
\* acquire of a read_lock handle of a separately constructed FileLock object B
\* on the same path, by the same caller, has raised the would-block error
\* instead of waiting for the OS lock.
C13_PerChainWouldBlock ==
    \A a \in 1..nobjs, b \in 1..nobjs :
        ( /\ Holds(a) /\ held[a] = LOCK_EX
          /\ a # b /\ file_path[a] = file_path[b]
          /\ owner[a] = owner[b] /\ chain[a] # chain[b]
          /\ lock_code[b] = LOCK_SH )
        => pc[b] # "waiting"

\* ---------------------------------------------------- claims (ScenSpec)
AllWritersDone == \A w \in Writers : wpc[w] = "done"

AllDone == \A w \in Workers : wpc[w] = "done"

\* C2: once all writers have finished, the counter equals
\* NumWriters * NumIncrease.
C2_NoLostUpdates == AllWritersDone => counter = REQUIRED_TOTAL

\* C2 witness: all writers have finished and a reader, polling meanwhile under
\* shared locks, has read the full count.
C2_Witness ==
    /\ AllWritersDone
    /\ counter = REQUIRED_TOTAL
    /\ \E r \in Readers : result[r] = "True" /\ last_line[r] = REQUIRED_TOTAL

ScenProgress ==
    \/ \E w \in Workers : Worker(w)
    \/ \E h \in 1..(2 * NumWorkers) : Kernel(h)

C14_Lifecycle ==
    [][\A h \in Objs :
          (h \in 1..nobjs /\ lock_code[h] # None) =>
              /\ lock_code'[h] = lock_code[h]
              /\ held'[h] \in {None, lock_code[h]}
              /\ (held[h] = None /\ held'[h] # None) => fd'[h] # None
              /\ (fd[h] # None /\ fd'[h] = None) =>
                     (held'[h] = None /\ pc'[h] = "idle")
              /\ (fd[h] = None /\ fd'[h] # None) =>
                     IF FlockFree(h, orphans)
                     THEN held'[h] = lock_code[h] /\ pc'[h] = "idle"
                     ELSE held'[h] = None /\ pc'[h] = "waiting"
      ]_vars

\* C14 witness: a read handle and a write handle have each been acquired,
\* released and acquired again, more than once, and one of them holds its lock.
C14_Witness ==
    \E r \in 1..nobjs, w \in 1..nobjs :
        /\ lock_code[r] = LOCK_SH /\ cycles[r] = MaxCycles
        /\ lock_code[w] = LOCK_EX /\ cycles[w] = MaxCycles
        /\ Holds(w) /\ held[w] = LOCK_EX

\* ------------------------------------------------ consistent_hash: values
\* Python values as tagged tuples.  Text and byte strings are sequences of
\* byte codes (ASCII): "1" is <<49>>, "a" is <<97>>.
IntVal(n) == <<"int", n>>
StrVal(s) == <<"str", s>>
BytesVal(s) == <<"bytes", s>>
ListVal(xs) == <<"list", xs>>
TupleVal(xs) == <<"tuple", xs>>
\* A dict: its (key, value) entries in insertion order, the keys distinct.
DictVal(items) == <<"dict", items>>
\* Instance number id of a class with a _consistent_hash method that returns k
\* (tests: ConsistentHashObj); id stands for the rest of the instance.
Inst(id, k) == <<"instance", id, k>>
\* The class ConsistentHashObj itself, passed as a value.
ClassObj == <<"class", "ConsistentHashObj">>
\* An object with no rule of its own; pickle.dumps works on it or raises.
Plain(id, picklable) == <<"object", id, picklable>>

\* param.__class__.__name__
type_name(param) ==
    CASE param[1] = "instance" -> "ConsistentHashObj"
      [] param[1] = "class" -> "type"
      [] OTHER -> param[1]

PRIMITIVE_TYPE_NAMES == {"bytes", "str", "int", "bool", "float", "datetime"}

\* What a call gives: a value returned, or an exception raised.
Returns(x) == <<"return", x>>
Throws(e) == <<"raise", e>>

\* The elements of the stream fed to the hasher: single bytes, and the byte
\* strings whose content is not modelled: the 16 bytes of a digest (a
\* collision-free function of the stream digested), the bytes pickle.dumps
\* gives for an object, and the text repr gives for it.
Byte(n) == <<"b", n>>
Digest(stream) == <<"xxh128", stream>>
Pickled(x) == <<"pickle", x>>
ReprText(x) == <<"repr", x>>
\* type_name.encode(): the bytes of a class name (no zero byte among them)
TypeName(name) == <<"name", name>>

encode(codes) == [i \in 1..Len(codes) |-> Byte(codes[i])]

RECURSIVE Digits(_)
Digits(n) == IF n < 10 THEN <<48 + n>> ELSE Digits(n \div 10) \o <<48 + (n % 10)>>

\* repr of an int or a str (strings without quotes or escapes in them)
repr(param) ==
    IF param[1] = "int"
    THEN IF param[2] < 0 THEN <<45>> \o Digits(0 - param[2]) ELSE Digits(param[2])
    ELSE <<39>> \o param[2] \o <<39>>

\* str(key) of a mapping key
str(key) == IF key[1] = "int" THEN repr(key) ELSE key[2]

\* int.to_bytes(n, "little") of k >= 0 (k < 256^n for every k modelled)
RECURSIVE to_bytes(_, _)
to_bytes(k, n) ==
    IF n = 0 THEN <<>> ELSE <<Byte(k % 256)>> \o to_bytes(k \div 256, n - 1)

\* Python's order of str: by code points, a proper prefix first.
RECURSIVE LexLess(_, _)
LexLess(a, b) ==
    IF a = <<>> THEN b # <<>>
    ELSE IF b = <<>> THEN FALSE
    ELSE IF a[1] # b[1] THEN a[1] < b[1]
    ELSE LexLess(Tail(a), Tail(b))

\* sorted(kwargs.items()) of a dict with str keys (all distinct)
RECURSIVE sorted(_)
sorted(items) ==
    IF items = <<>> THEN <<>>
    ELSE LET m == CHOOSE i \in 1..Len(items) :
                      \A j \in 1..Len(items) : j # i => LexLess(items[i][1], items[j][1])
         IN <<items[m]>> \o
            sorted([j \in 1..(Len(items) - 1) |-> IF j < m THEN items[j] ELSE items[j + 1]])

\* d[k] = v on a dict with str keys: a key already present keeps its place
dict_set(d, k, v) ==
    IF \E i \in 1..Len(d) : d[i][1] = k
    THEN [i \in 1..Len(d) |-> IF d[i][1] = k THEN <<k, v>> ELSE d[i]]
    ELSE Append(d, <<k, v>>)

\* {str(key): value for key, value in param.items()}
RECURSIVE param_items(_, _)
param_items(d, items) ==
    IF items = <<>> THEN d
    ELSE param_items(dict_set(d, str(items[1][1]), items[1][2]), Tail(items))

\* ------------------------------------------ consistent_hash: the function
\* getattr(param, "_consistent_hash", None) is not None: instances of the
\* class have the bound method, the class itself has the plain function.
has_chashmeth(param) == param[1] \in {"instance", "class"}

\* (mutant) a method lookup that yields the object's identity
chashmeth_by_identity(param) ==
    IF param[1] = "instance" THEN Returns(param[2]) ELSE Throws("TypeError")

\* chashmeth(): the bound method returns the instance's integer; the plain
\* function, called without self, raises TypeError.
chashmeth(param) ==
    IF param[1] = "instance" THEN Returns(param[3]) ELSE Throws("TypeError")

\* rec_int.to_bytes(16, "little"): OverflowError on a negative integer
rec_int_bytes(rec_int) ==
    IF rec_int < 0 THEN Throws("OverflowError") ELSE Returns(to_bytes(rec_int, 16))

\* isinstance(param, collections.abc.Mapping)
is_mapping(param) == param[1] = "dict"

\* (mutant) a sequence test that knows lists only
is_list(param) == param[1] = "list"

\* isinstance(param, (list, tuple))
is_sequence(param) == param[1] \in {"list", "tuple"}

\* pickle.dumps(param) succeeds: on everything modelled but the objects
\* marked unpicklable
picklable(param) == param[1] # "object" \/ param[3]

\* pickle.dumps(param), and repr(param).encode() when it raises
fallback_bytes(param) ==
    IF picklable(param) THEN <<Pickled(param)>> ELSE <<ReprText(param)>>

RECURSIVE consistent_hash_raw(_, _, _)
RECURSIVE param_bytes(_)
RECURSIVE update_params(_, _, _)

\* The body of the loop: the bytes one param contributes, or the exception.
\* The recursive calls pass args and kwargs only: type_name_dependence has
\* its default, False, in them.
param_bytes(param) ==
    IF type_name(param) \in PRIMITIVE_TYPE_NAMES
    THEN IF type_name(param) = "bytes"
         THEN Returns(encode(param[2]))
         ELSE Returns(encode(repr(param)))
    ELSE IF has_chashmeth(param)
    THEN IF chashmeth(param)[1] = "raise"
         THEN chashmeth(param)
         ELSE rec_int_bytes(chashmeth(param)[2])
    ELSE IF is_mapping(param)
    THEN LET rec == consistent_hash_raw(<<>>, param_items(<<>>, param[2]), FALSE)
         IN IF rec[1] = "raise" THEN rec ELSE Returns(<<Digest(rec[2])>>)
    ELSE IF is_sequence(param)
    THEN LET rec == consistent_hash_raw(param[2], <<>>, FALSE)
         IN IF rec[1] = "raise" THEN rec ELSE Returns(<<Digest(rec[2])>>)
    ELSE Returns(fallback_bytes(param))

\* for param in params: ... hasher.update(param_bytes), after the type name
\* between two zero bytes when type_name_dependence (tn_dep) is set
update_params(stream, params, tn_dep) ==
    IF params = <<>> THEN Returns(stream)
    ELSE LET pb == param_bytes(params[1])
             name == IF tn_dep
                     THEN <<Byte(0), TypeName(type_name(params[1])), Byte(0)>>
                     ELSE <<>>
         IN IF pb[1] = "raise" THEN pb
            ELSE update_params(stream \o name \o pb[2], Tail(params), tn_dep)

\* consistent_hash_raw(args, kwargs, type_name_dependence=tn_dep): the stream
\* the new hasher has been fed,
\* or the exception raised.  kwargs is a dict with str keys; each of its items
\* is a tuple (key, value).
consistent_hash_raw(args, kwargs, tn_dep) ==
    LET items == sorted(kwargs)
        params == IF kwargs # <<>>
                  THEN args \o [i \in 1..Len(items) |->
                                   TupleVal(<<StrVal(items[i][1]), items[i][2]>>)]
                  ELSE args
    IN update_params(<<>>, params, tn_dep)

\* consistent_hash(*args, **kwargs): the digest as an integer
consistent_hash(args, kwargs) ==
    LET raw == consistent_hash_raw(args, kwargs, FALSE)
    IN IF raw[1] = "raise" THEN raw ELSE Returns(Digest(raw[2]))

\* ------------------------------------- HashSpec: two invocations, hashed
SeqsOf(S, n) == UNION {[1..k -> S] : k \in 0..n}

\* The entries of a sequence of (key, value) pairs have distinct keys.
DistinctKeys(items) ==
    \A i \in 1..Len(items), j \in 1..Len(items) : i # j => items[i][1] # items[j][1]

Elems == {IntVal(1), IntVal(11)}

\* The values of the tests (ints, instances with _consistent_hash 123 and 124,
\* the class itself) and their neighbours: "1" and b"1", an instance whose
\* method returns a negative integer, a picklable and an unpicklable object.
Atoms ==
    Elems \cup
    {StrVal(<<49>>), BytesVal(<<49>>),
     Inst(1, 123), Inst(2, 123), Inst(3, 124), Inst(4, 0 - 1),
     ClassObj, Plain(1, TRUE), Plain(2, FALSE)}

Lists == {ListVal(xs) : xs \in SeqsOf(Elems, MaxSeqLen)}

Tuples == {TupleVal(xs) : xs \in SeqsOf(Elems, MaxSeqLen)}

\* Dict entries: the keys "a", "1" and 1.
Entries ==
    {<<StrVal(<<97>>), IntVal(1)>>, <<StrVal(<<97>>), IntVal(11)>>,
     <<StrVal(<<49>>), IntVal(11)>>, <<IntVal(1), IntVal(1)>>}

Dicts == {DictVal(items) : items \in {d \in SeqsOf(Entries, MaxSeqLen) : DistinctKeys(d)}}

Depth1 == Lists \cup Tuples \cup Dicts

\* The values put inside another container: the class, an instance, and the
\* longest lists, tuples and dicts.
Inner == {ClassObj, Inst(1, 123)} \cup {c \in Depth1 : Len(c[2]) = MaxSeqLen}

Wrap(S) ==
    {ListVal(<<c>>) : c \in S} \cup {TupleVal(<<c>>) : c \in S}
        \cup {DictVal(<<<<StrVal(<<97>>), c>>>>) : c \in S}

Values == Atoms \cup Depth1 \cup Wrap(Inner)

\* Keyword arguments: the names "a" and "b".
KwItems == {<<<<97>>, IntVal(1)>>, <<<<98>>, IntVal(11)>>}

KwDicts == {d \in SeqsOf(KwItems, MaxSeqLen) : DistinctKeys(d)}

\* An invocation is <<args, kwargs>>: consistent_hash(value), as in the tests,
\* or some positional ints with some keywords.
Invocations ==
    {<<<<v>>, <<>>>> : v \in Values} \cup (SeqsOf(Elems, MaxSeqLen) \X KwDicts)

Pending == <<"pending", <<>>>>

HashInit ==
    /\ nobjs = 0
    /\ file_path = <<>>
    /\ lock_code = <<>>
    /\ fd = <<>>
    /\ chain = <<>>
    /\ owner = <<>>
    /\ pc = <<>>
    /\ held = <<>>
    /\ orphans = <<>>
    /\ error = Raised("none", "none")
    /\ stack = <<>>
    /\ exc = <<>>
    /\ wpc = <<>>
    /\ iter = <<>>
    /\ counter = 0
    /\ last_line = <<>>
    /\ result = <<>>
    /\ timedout = <<>>
    /\ cycles = <<>>
    /\ arg \in Invocations \X Invocations
    /\ out = <<Pending, Pending>>
    /\ hasher = <<>>
    /\ ncalls = 0
    /\ type_name_dependence = FALSE
    /\ LibIdle

\* (mutant) a call that feeds the hasher of the previous call
HashCallStale(i) ==
    /\ ncalls < MaxCalls
    /\ LET raw == consistent_hash_raw(arg[i][1], arg[i][2], FALSE) IN
           /\ hasher' = IF raw[1] = "raise" THEN hasher ELSE hasher \o raw[2]
           /\ out' = [out EXCEPT ![i] = IF raw[1] = "raise" THEN raw
                                        ELSE Returns(Digest(hasher \o raw[2]))]
    /\ ncalls' = ncalls + 1
    /\ UNCHANGED <<arg, type_name_dependence, objvars, scopevars, scenvars, lifevars, libvars>>

\* consistent_hash(*arg[i].args, **arg[i].kwargs): a new hasher is made and
\* fed; the digest is returned (or the exception leaves the call).
HashCall(i) ==
    /\ ncalls < MaxCalls
    /\ LET raw == consistent_hash_raw(arg[i][1], arg[i][2], FALSE) IN
           hasher' = IF raw[1] = "raise" THEN <<>> ELSE raw[2]
    /\ out' = [out EXCEPT ![i] = consistent_hash(arg[i][1], arg[i][2])]
    /\ ncalls' = ncalls + 1
    /\ UNCHANGED <<arg, type_name_dependence, objvars, scopevars, scenvars, lifevars, libvars>>

HashNext == \E i \in {1, 2} : HashCall(i)

HashSpec == HashInit /\ [][HashNext]_vars

\* ------------------- RawSpec: two invocations, hashed by consistent_hash_raw
\* Two invocations and the type_name_dependence argument every call is given.
RawInit ==
    /\ nobjs = 0
    /\ file_path = <<>>
    /\ lock_code = <<>>
    /\ fd = <<>>
    /\ chain = <<>>
    /\ owner = <<>>
    /\ pc = <<>>
    /\ held = <<>>
    /\ orphans = <<>>
    /\ error = Raised("none", "none")
    /\ stack = <<>>
    /\ exc = <<>>
    /\ wpc = <<>>
    /\ iter = <<>>
    /\ counter = 0
    /\ last_line = <<>>
    /\ result = <<>>
    /\ timedout = <<>>
    /\ cycles = <<>>
    /\ arg \in Invocations \X Invocations
    /\ out = <<Pending, Pending>>
    /\ hasher = <<>>
    /\ ncalls = 0
    /\ type_name_dependence \in BOOLEAN
    /\ LibIdle

\* consistent_hash_raw(arg[i].args, arg[i].kwargs,
\* type_name_dependence=type_name_dependence).digest()
RawCall(i) ==
    /\ ncalls < MaxCalls
    /\ LET raw == consistent_hash_raw(arg[i][1], arg[i][2], type_name_dependence) IN
           /\ hasher' = IF raw[1] = "raise" THEN <<>> ELSE raw[2]
           /\ out' = [out EXCEPT ![i] = IF raw[1] = "raise" THEN raw
                                        ELSE Returns(Digest(raw[2]))]
    /\ ncalls' = ncalls + 1
    /\ UNCHANGED <<arg, type_name_dependence, objvars, scopevars, scenvars, lifevars, libvars>>

RawNext == \E i \in {1, 2} : RawCall(i)

RawSpec == RawInit /\ [][RawNext]_vars

\* ---------------------------------------------------- claims (HashSpec)
\* A value with the distinctions named in modes erased, at every depth:
\* "order" (a dict becomes the set of its entries), "tuple" (a tuple becomes a
\* list), "instance" (an instance becomes the integer its method returns).
RECURSIVE Norm(_, _)
Norm(v, modes) ==
    CASE v[1] = "dict" ->
             IF "order" \in modes
             THEN <<"dict", {<<v[2][i][1], Norm(v[2][i][2], modes)>> : i \in 1..Len(v[2])}>>
             ELSE <<"dict", [i \in 1..Len(v[2]) |-> <<v[2][i][1], Norm(v[2][i][2], modes)>>]>>
      [] v[1] \in {"list", "tuple"} ->
             <<IF "tuple" \in modes THEN "list" ELSE v[1],
               [i \in 1..Len(v[2]) |-> Norm(v[2][i], modes)]>>
      [] v[1] = "instance" ->
             IF "instance" \in modes THEN <<"instance", 0, v[3]>> ELSE v
      [] OTHER -> v

\* The same for an invocation; "order" also erases the order of the keywords.
NormInv(inv, modes) ==
    <<[i \in 1..Len(inv[1]) |-> Norm(inv[1][i], modes)],
      IF "order" \in modes
      THEN {<<inv[2][i][1], Norm(inv[2][i][2], modes)>> : i \in 1..Len(inv[2])}
      ELSE [i \in 1..Len(inv[2]) |-> <<inv[2][i][1], Norm(inv[2][i][2], modes)>>]>>

BothCalled == out[1] # Pending /\ out[2] # Pending

BothReturned == out[1][1] = "return" /\ out[2][1] = "return"

\* consistent_hash(v)
Single(v) == <<<<v>>, <<>>>>

\* C15 (as claimed): two invocations that are equal up to the insertion order
\* of their keywords and of the entries of their mappings, at any depth, give
\* the same result.
C15_MappingOrderIndependent ==
    (BothCalled /\ NormInv(arg[1], {"order"}) = NormInv(arg[2], {"order"}))
        => out[1] = out[2]

\* C16: two invocations that are equal up to the tuple/list distinction, at
\* any depth, give the same digest.
C16_TupleListErased ==
    (BothCalled /\ NormInv(arg[1], {"tuple"}) = NormInv(arg[2], {"tuple"}))
        => out[1] = out[2]

\* C16 witness: a tuple and a list of the same MaxSeqLen elements, each the
\* value of an entry of a dict, have been hashed to the same digest.
C16_Witness ==
    \E xs \in SeqsOf(Elems, MaxSeqLen) :
        /\ Len(xs) = MaxSeqLen
        /\ arg[1] = Single(DictVal(<<<<StrVal(<<97>>), TupleVal(xs)>>>>))
        /\ arg[2] = Single(DictVal(<<<<StrVal(<<97>>), ListVal(xs)>>>>))
        /\ BothReturned /\ out[1] = out[2]

\* C17 (as claimed): two invocations that differ, beyond mapping order, the
\* tuple/list distinction and the identity of self-hashing instances, in a
\* value, in the order of a sequence, in a type or in a key set, give
\* different digests.
C17_DistinctInputsSeparate ==
    ( /\ BothCalled /\ BothReturned
      /\ NormInv(arg[1], {"order", "tuple", "instance"})
             # NormInv(arg[2], {"order", "tuple", "instance"}) )
        => out[1] # out[2]

\* C18: for two instances with the self-hash method returning integers within
\* 128 bits, the digests are equal exactly when the integers are.
C18_SelfHash ==
    \A i \in 1..4, j \in 1..4, k \in {123, 124}, l \in {123, 124} :
        (BothCalled /\ arg[1] = Single(Inst(i, k)) /\ arg[2] = Single(Inst(j, l)))
            => (BothReturned /\ (out[1] = out[2] <=> k = l))

\* C18 witness: two distinct instances returning 123 have the same digest,
\* in a behaviour that hashed both.
C18_Witness ==
    /\ arg[1] = Single(Inst(1, 123)) /\ arg[2] = Single(Inst(2, 123))
    /\ BothReturned /\ out[1] = out[2]

\* C19 (as claimed): no call raises, and equal inputs give equal digests.
C19_NeverRaises ==
    /\ \A i \in {1, 2} : out[i] # Pending => out[i][1] = "return"
    /\ (BothCalled /\ arg[1] = arg[2]) => out[1] = out[2]

Tasks == 1..NumTasks

\* All the variables of the flock, scenario, lifecycle and hashing models at rest.
FlockIdle ==
    /\ nobjs = 0
    /\ file_path = <<>>
    /\ lock_code = <<>>
    /\ fd = <<>>
    /\ chain = <<>>
    /\ owner = <<>>
    /\ pc = <<>>
    /\ held = <<>>
    /\ orphans = <<>>
    /\ error = Raised("none", "none")
    /\ stack = <<>>
    /\ exc = <<>>
    /\ wpc = <<>>
    /\ iter = <<>>
    /\ counter = 0
    /\ last_line = <<>>
    /\ result = <<>>
    /\ timedout = <<>>
    /\ cycles = <<>>
    /\ arg = <<>>
    /\ out = <<>>
    /\ hasher = <<>>
    /\ ncalls = <<>>
    /\ type_name_dependence = FALSE

\* LazyWrapAsync(generate), and the tasks not yet started by the loop.
AioInit ==
    /\ FlockIdle
    /\ tpc = [t \in Tasks |-> "new"]
    /\ tres = [t \in Tasks |-> Unset]
    /\ generate_done = FALSE
    /\ value = Unset
    /\ locked = FALSE
    /\ waiters = <<>>
    /\ woken = {}
    /\ started = 0
    /\ count = 0
    /\ gen_awaits = 0
    /\ FutIdle
    /\ RegIdle
    /\ RateIdle

\* The sequence ws without t.
remove(ws, t) == SelectSeq(ws, LAMBDA w : w # t)

\* return v from __call__ of task t
Return(t, v) ==
    /\ tres' = [tres EXCEPT ![t] = v]
    /\ tpc' = [tpc EXCEPT ![t] = "done"]

\* asyncio.Lock.release() at the end of the async with block, the queue being
\* ws and the woken waiters wk.
Released(ws, wk) ==
    /\ locked' = FALSE
    /\ waiters' = ws
    /\ woken' = IF ws # <<>> THEN wk \cup {Head(ws)} ELSE wk

\* generate() returns next(counter); lines 26-28 store it and leave the block.
Finish(t, ws, wk) ==
    /\ value' = count
    /\ count' = count + 1
    /\ generate_done' = TRUE
    /\ Return(t, count)
    /\ Released(ws, wk)

\* generate() suspends: task t keeps the lock.
Suspend(t, ws, wk) ==
    /\ tpc' = [tpc EXCEPT ![t] = "generating"]
    /\ locked' = TRUE
    /\ waiters' = ws
    /\ woken' = wk
    /\ gen_awaits' = gen_awaits + 1
    /\ UNCHANGED <<tres, generate_done, value, count>>

\* (mutant) the block without the re-check of line 22
CriticalNoRecheck(t, ws, wk) ==
    /\ started' = started + 1
    /\ \/ Finish(t, ws, wk) /\ gen_awaits' = 0
       \/ gen_awaits' = 1 /\ Suspend(t, ws, wk)

\* The body of the async with block (lines 21-28) entered by task t holding
\* the lock, up to its return or to the first suspension of generate().
Critical(t, ws, wk) ==
    IF generate_done
    THEN /\ Return(t, value)
         /\ Released(ws, wk)
         /\ UNCHANGED <<generate_done, value, count, started, gen_awaits>>
    ELSE /\ started' = started + 1
         /\ \/ Finish(t, ws, wk) /\ gen_awaits' = 0
            \/ gen_awaits' = 1 /\ Suspend(t, ws, wk)

\* Task t starts: await generate_cached() up to its first suspension.
Call(t) ==
    /\ tpc[t] = "new"
    /\ IF generate_done
       THEN /\ Return(t, value)
            /\ UNCHANGED <<generate_done, value, locked, waiters, woken, started, count,
                           gen_awaits>>
       ELSE IF ~locked /\ waiters = <<>>
       THEN Critical(t, waiters, woken)
       ELSE /\ waiters' = Append(waiters, t)
            /\ tpc' = [tpc EXCEPT ![t] = "waiting"]
            /\ UNCHANGED <<tres, generate_done, value, locked, woken, started, count,
                           gen_awaits>>
    /\ UNCHANGED <<objvars, scopevars, scenvars, lifevars, hashvars, futvars, regvars, ratevars>>

\* The loop runs a waiter whose future has a result: it leaves the queue,
\* takes the lock and enters the block.
Resume(t) ==
    /\ tpc[t] = "waiting"
    /\ t \in woken
    /\ Critical(t, remove(waiters, t), woken \ {t})
    /\ UNCHANGED <<objvars, scopevars, scenvars, lifevars, hashvars, futvars, regvars, ratevars>>

\* The loop resumes the generate coroutine of task t: it suspends again or returns.
GenStep(t) ==
    /\ tpc[t] = "generating"
    /\ \/ /\ gen_awaits < MaxAwaits
          /\ tpc' = tpc
          /\ gen_awaits' = gen_awaits + 1
          /\ UNCHANGED <<tres, generate_done, value, locked, waiters, woken, count>>
       \/ Finish(t, waiters, woken) /\ gen_awaits' = gen_awaits
    /\ UNCHANGED <<started, objvars, scopevars, scenvars, lifevars, hashvars, futvars, regvars, ratevars>>

\* The test calls generate() itself (check_value, recheck_value).
DirectGenerate ==
    /\ count < MaxCount + started
    /\ count' = count + 1
    /\ UNCHANGED <<tpc, tres, generate_done, value, locked, waiters, woken, started,
                   gen_awaits, objvars, scopevars, scenvars, lifevars, hashvars, futvars, regvars, ratevars>>

AioNext ==
    \/ \E t \in Tasks : Call(t)
    \/ \E t \in Tasks : Resume(t)
    \/ \E t \in Tasks : GenStep(t)
    \/ DirectGenerate

AioSpec == AioInit /\ [][AioNext]_vars

\* ----------------------------------------------------- claims (AioSpec)
\* C21: whatever the interleaving of the tasks, the generate coroutine is
\* started at most once, it has been started once when a call has returned,
\* and every call that has returned gave the value stored by that one run.
C21_GeneratesOnce ==
    /\ started <= 1
    /\ \A t \in Tasks :
           tpc[t] = "done" =>
               /\ started = 1
               /\ generate_done
               /\ value # Unset
               /\ tres[t] = value

\* One call has returned the value while generate() had suspended, a second
\* task that queued on the lock has been woken, a third has not started yet.
C21_Witness ==
    /\ gen_awaits = MaxAwaits
    /\ \E t1, t2, t3 \in Tasks :
           /\ tpc[t1] = "done" /\ tres[t1] = value /\ value > 0
           /\ tpc[t2] = "waiting" /\ t2 \in woken
           /\ tpc[t3] = "new"

\* ------------------------------------- futures_processing (nt_utils.utils)
\* Inputs are numbered 0..NumInputs-1 as enumerate() numbers them.
Inputs == 0..(NumInputs - 1)

\* The test's inputs: one letter per input; func raises on the letter "x".
Letters == {"a", "b", "x"}

\* A str value, as the sequence of its characters, and None.
StrResult(chars) == <<"str", chars>>
NoneResult == <<"None">>

\* kwargs_list[i] = {"num": i}
kwargs_list(i) == i

\* The test's func(str_, *, num): str_ * num; a func that raises is the one of
\* test_futures_processing_with_exception.
func(str_, num) ==
    IF str_ = "x" THEN Throws("ValueError") ELSE Returns(StrResult([k \in 1..num |-> str_]))

\* func_with_idx(idx, *args, **kwargs)
func_with_idx(idx, str_, num, only_log) ==
    IF func(str_, num)[1] = "return"
    THEN Returns(<<idx, func(str_, num)[2]>>)
    ELSE IF only_log THEN Returns(<<idx, NoneResult>>) ELSE func(str_, num)

\* cache_results[idx] = func_result
cache_put(cache, idx, v) == [k \in DOMAIN cache \cup {idx} |-> IF k = idx THEN v ELSE cache[k]]

\* cache_results.pop(idx)
cache_pop(cache, idx) == [k \in DOMAIN cache \ {idx} |-> cache[k]]

\* while current_result_idx in cache_results: yield cache_results.pop(...):
\* the values yielded, the cache and the index left.
RECURSIVE drain(_, _)
drain(cache, cur) ==
    IF cur \in DOMAIN cache
    THEN LET rest == drain(cache_pop(cache, cur), cur + 1)
         IN <<(<<cache[cur]>>) \o rest[1], rest[2], rest[3]>>
    ELSE <<(<<>>), cache, cur>>

\* (mutant) the loop body that yields each result as it completes
loop_body_unordered(idx, v) ==
    /\ yielded' = Append(yielded, v)
    /\ UNCHANGED <<cache_results, current_result_idx>>

\* The body of the for loop for a future whose result is (idx, v), lines 227-232.
loop_body(idx, v) ==
    IF in_order
    THEN LET d == drain(cache_put(cache_results, idx, v), current_result_idx) IN
             /\ yielded' = yielded \o d[1]
             /\ cache_results' = d[2]
             /\ current_result_idx' = d[3]
    ELSE /\ yielded' = Append(yielded, v)
         /\ UNCHANGED <<cache_results, current_result_idx>>

\* futures_processing(func, args_list, kwargs_list, ...) has submitted every
\* input to the executor; nothing runs yet.
FutInit ==
    /\ FlockIdle
    /\ AioIdle
    /\ RegIdle
    /\ RateIdle
    /\ args_list \in [Inputs -> Letters]
    /\ max_workers \in {1, NumInputs}
    /\ in_order \in BOOLEAN
    /\ only_log_exceptions \in BOOLEAN
    /\ results = [i \in Inputs |-> <<"pending">>]
    /\ handled = {}
    /\ cache_results = <<>>
    /\ current_result_idx = 0
    /\ yielded = <<>>
    /\ gen_state = "running"

\* A free worker thread of the pool takes the oldest work item of its queue.
WorkerStart(i) ==
    /\ results[i] = <<"pending">>
    /\ \A j \in Inputs : j < i => results[j] # <<"pending">>
    /\ Cardinality({j \in Inputs : results[j] = <<"running">>}) < max_workers
    /\ results' = [results EXCEPT ![i] = <<"running">>]
    /\ UNCHANGED <<args_list, max_workers, in_order, only_log_exceptions, handled,
                   cache_results, current_result_idx, yielded, gen_state,
                   objvars, scopevars, scenvars, lifevars, hashvars, aiovars, regvars, ratevars>>

\* The worker finishes func_with_idx for input i: the future gets its outcome.
WorkerFinish(i) ==
    /\ results[i] = <<"running">>
    /\ results' = [results EXCEPT
                     ![i] = func_with_idx(i, args_list[i], kwargs_list(i), only_log_exceptions)]
    /\ UNCHANGED <<args_list, max_workers, in_order, only_log_exceptions, handled,
                   cache_results, current_result_idx, yielded, gen_state,
                   objvars, scopevars, scenvars, lifevars, hashvars, aiovars, regvars, ratevars>>

\* One iteration of for future in futures.as_completed(results): a finished
\* future not handed out yet; its exception is raised, or its result is
\* yielded or cached.  The generator ends after the last future.
LoopStep(i) ==
    /\ gen_state = "running"
    /\ i \notin handled
    /\ results[i][1] \in {"return", "raise"}
    /\ handled' = handled \cup {i}
    /\ IF results[i][1] = "raise"
       THEN /\ gen_state' = "raised"
            /\ UNCHANGED <<cache_results, current_result_idx, yielded>>
       ELSE /\ loop_body(results[i][2][1], results[i][2][2])
            /\ gen_state' = IF handled' = Inputs THEN "done" ELSE "running"
    /\ UNCHANGED <<args_list, max_workers, in_order, only_log_exceptions, results,
                   objvars, scopevars, scenvars, lifevars, hashvars, aiovars, regvars, ratevars>>

FutNext ==
    \/ \E i \in Inputs : WorkerStart(i)
    \/ \E i \in Inputs : WorkerFinish(i)
    \/ \E i \in Inputs : LoopStep(i)

FutSpec == FutInit /\ [][FutNext]_vars

\* ----------------------------------------------------- claims (FutSpec)
\* func applied to the i-th args and kwargs (None where only_log_exceptions
\* replaced an exception).
Expected(i) ==
    IF func(args_list[i], kwargs_list(i))[1] = "return"
    THEN func(args_list[i], kwargs_list(i))[2]
    ELSE NoneResult

\* C22: with in_order=True the values yielded so far are, in every state, the
\* results of the first inputs in input order; a generator that has ended
\* has yielded one value per input; and it ends by an exception only when
\* func raised and exceptions are not only logged.
C22_InOrder ==
    in_order =>
        /\ Len(yielded) <= NumInputs
        /\ \A k \in 1..Len(yielded) : yielded[k] = Expected(k - 1)
        /\ gen_state = "done" => Len(yielded) = NumInputs
        /\ gen_state = "raised" =>
               /\ ~only_log_exceptions
               /\ \E i \in Inputs : args_list[i] = "x"

\* The last input completed and reached the loop before the second one: it
\* waits in the cache while only the first result has been yielded.
C22_Witness ==
    /\ in_order
    /\ gen_state = "running"
    /\ Len(yielded) = 1
    /\ (NumInputs - 1) \in DOMAIN cache_results
    /\ 1 \notin handled
    /\ args_list[0] # args_list[NumInputs - 1]

\* ------------------------------------------- Register (replete.register)
\* A class name is the sequence of its capitalised words: SubClass is
\* <<"Sub", "Class">>.  NoName is None (no name given, none recorded).
NoName == <<"None">>
BaseNames == <<(<<"Base", "Class">>), (<<"Base", "Model">>)>>
Bases == 1..Len(BaseNames)
ClassNames == {<<"Sub", "Class">>, <<"Sub">>, <<"Other", "Class">>}
GivenNames == {NoName, <<"Sub">>}
ClassIds == 1..(Len(BaseNames) + MaxClasses)

\* suffix_match.group(1) of r".*([A-Z][^A-Z]+)$": the last capitalised word.
suffix_of(name) == <<name[Len(name)]>>

\* A class object: __name__, its _register_base_class, whether its own
\* __dict__ has __attrs_attrs__, and its own _name_in_register.
Class(name, base, has_attrs) ==
    [name |-> name, base |-> base, attrs |-> has_attrs, name_in_register |-> NoName]

\* name[-len(suffix):] == suffix
ends_with(name, suffix) ==
    /\ Len(name) >= Len(suffix)
    /\ SubSeq(name, Len(name) - Len(suffix) + 1, Len(name)) = suffix

\* Lines 45-48: the name a class is registered under.
name_for(obj_name, given, suffix) ==
    IF given # NoName THEN given
    ELSE IF ends_with(obj_name, suffix)
    THEN SubSeq(obj_name, 1, Len(obj_name) - Len(suffix))
    ELSE obj_name

\* dict[name] = obj
dict_put(d, name, obj) == [k \in DOMAIN d \cup {name} |-> IF k = name THEN obj ELSE d[k]]

\* The base classes of the fixture: class BaseClass(Register, base=True,
\* abstract=True), each with an empty _register_data.
RegInit ==
    /\ FlockIdle
    /\ AioIdle
    /\ FutIdle
    /\ RateIdle
    /\ classes = [b \in Bases |-> Class(BaseNames[b], b, FALSE)]
    /\ register_data = [b \in Bases |-> <<>>]
    /\ reg_error = "none"
    /\ attempt = <<>>
    /\ nreg = 0

\* (mutant) register_class that stores the class whatever is registered
register_class_overwrite(cls_attrs, base, obj, given, cs) ==
    LET name == name_for(cs[obj].name, given, suffix_of(cs[base].name)) IN
        /\ attempt' = [base |-> base, name |-> name, obj |-> obj, cls_attrs |-> cls_attrs]
        /\ nreg' = nreg + 1
        /\ reg_error' = "none"
        /\ register_data' = [register_data EXCEPT ![base] = dict_put(@, name, obj)]
        /\ classes' = [cs EXCEPT ![obj].name_in_register = name]

\* cls.register_class(obj, name=given) from line 45 on, where cls has
\* __attrs_attrs__ in its __dict__ iff cls_attrs, its _register_base_class is
\* base, and cs is the classes that exist during the call.
register_class(cls_attrs, base, obj, given, cs) ==
    LET name == name_for(cs[obj].name, given, suffix_of(cs[base].name))
        taken == name \in DOMAIN register_data[base]
        old_cls == register_data[base][name]
    IN  /\ attempt' = [base |-> base, name |-> name, obj |-> obj, cls_attrs |-> cls_attrs]
        /\ nreg' = nreg + 1
        /\ IF taken /\ ~(cls_attrs /\ ~cs[old_cls].attrs)
           THEN /\ reg_error' = "KeyError"
                /\ UNCHANGED <<register_data, classes>>
           ELSE /\ reg_error' = "none"
                /\ register_data' = [register_data EXCEPT ![base] = dict_put(@, name, obj)]
                /\ classes' = IF taken
                              THEN [[cs EXCEPT ![old_cls].name_in_register = NoName]
                                       EXCEPT ![obj].name_in_register = name]
                              ELSE [cs EXCEPT ![obj].name_in_register = name]

\* class <name>(<base b>, abstract=..., name=...): with or without
\* __attrs_attrs__ in its body: __init_subclass__ (lines 73-85).  A class
\* statement that raises binds no class.
DefineClass(name, b, has_attrs, abstract, given) ==
    /\ Len(classes) < Len(BaseNames) + MaxClasses
    /\ LET obj == Len(classes) + 1
           cs == Append(classes, Class(name, b, has_attrs))
       IN IF abstract /\ given # NoName
          THEN /\ reg_error' = "RegisterError"
               /\ reg_error # "RegisterError"
               /\ UNCHANGED <<classes, register_data, attempt, nreg>>
          ELSE IF abstract
          THEN /\ classes' = cs
               /\ reg_error' = "none"
               /\ UNCHANGED <<register_data, attempt, nreg>>
          ELSE /\ nreg < MaxRegCalls
               /\ register_class(has_attrs, b, obj, given, cs)
    /\ UNCHANGED <<objvars, scopevars, scenvars, lifevars, hashvars, aiovars, futvars, ratevars>>

\* c.register_class(o, name=given) called on existing classes (lines 40-59).
RegisterClass(c, o, given) ==
    /\ c \in 1..Len(classes) /\ o \in 1..Len(classes)
    /\ nreg < MaxRegCalls
    /\ IF classes[o].base # classes[c].base
       THEN /\ reg_error' = "RegisterError"
            /\ reg_error # "RegisterError"
            /\ UNCHANGED <<classes, register_data, attempt, nreg>>
       ELSE register_class(classes[c].attrs, classes[c].base, o, given, classes)
    /\ UNCHANGED <<objvars, scopevars, scenvars, lifevars, hashvars, aiovars, futvars, ratevars>>

RegNext ==
    \/ \E name \in ClassNames, b \in Bases, has_attrs \in BOOLEAN, abstract \in BOOLEAN,
          given \in GivenNames : DefineClass(name, b, has_attrs, abstract, given)
    \/ \E c \in ClassIds, o \in ClassIds, given \in GivenNames : RegisterClass(c, o, given)

RegSpec == RegInit /\ [][RegNext]_vars

\* ----------------------------------------------------- claims (RegSpec)
\* The step is a register_class call for a name that was taken under its base.
NameTaken == nreg' # nreg /\ attempt'.name \in DOMAIN register_data[attempt'.base]

\* The registration is the one line 53 lets through: the class it is made
\* on has __attrs_attrs__ of its own and the registered class has not.
AttrsRebuild ==
    /\ attempt'.cls_attrs
    /\ ~classes[register_data[attempt'.base][attempt'.name]].attrs

\* C23 (as stated): every registration under a taken name raises KeyError
\* and leaves the registry and the classes as they were.
C23_NameUnique ==
    [][NameTaken =>
           /\ reg_error' = "KeyError"
           /\ register_data' = register_data
           /\ classes' = classes]_vars

\* C23 (amended): a registration under a taken name raises KeyError and
\* changes nothing, except when it is made on a class with __attrs_attrs__ of
\* its own and the registered class has none: then the new class takes the
\* name and the old class's _name_in_register becomes None.
C23_NameUniqueButAttrs ==
    [][NameTaken =>
           IF AttrsRebuild
           THEN /\ reg_error' = "none"
                /\ register_data'[attempt'.base][attempt'.name] = attempt'.obj
                /\ \A n \in DOMAIN register_data[attempt'.base] \ {attempt'.name} :
                       register_data'[attempt'.base][n] = register_data[attempt'.base][n]
                /\ LET old_cls == register_data[attempt'.base][attempt'.name] IN
                       old_cls # attempt'.obj => classes'[old_cls].name_in_register = NoName
           ELSE /\ reg_error' = "KeyError"
                /\ register_data' = register_data
                /\ classes' = classes]_vars

\* The test's case has happened: SubClass is registered as Sub, and the
\* latest statement, a second plain class for the name Sub, raised KeyError.
C23_Witness ==
    /\ reg_error = "KeyError"
    /\ attempt # <<>>
    /\ attempt.name = <<"Sub">>
    /\ ~attempt.cls_attrs
    /\ attempt.obj = Len(classes) + 1
    /\ <<"Sub">> \in DOMAIN register_data[attempt.base]
    /\ classes[register_data[attempt.base][<<"Sub">>]].name = <<"Sub", "Class">>

\* ----------------------------------------- RateLimiter (nt_utils.timing)
\* Time is counted in ticks; time.time() reads the clock now, which the
\* Tick action advances.  Each read of the clock in check_rate is a step of
\* its own, so the clock can advance between any two of them.
Callers == 1..NumCallers
Weights == 1..MaxWeight

\* sum(c[0] for c in self._calls)
RECURSIVE sum_weights(_)
sum_weights(cs) == IF cs = <<>> THEN 0 ELSE cs[1][1] + sum_weights(Tail(cs))

\* _weight_left
weight_left(cs) == max_weight - sum_weights(cs)

\* _clean_calls at time t: the deque after the expired calls are popped.
RECURSIVE clean_calls(_, _)
clean_calls(cs, t) ==
    IF cs # <<>> /\ cs[1][2] < t - period_length THEN clean_calls(Tail(cs), t) ELSE cs

\* (mutant) _check_calls that lets max_calls calls be present already
check_calls_inclusive(cs) == IF max_calls # 0 THEN Len(cs) <= max_calls ELSE TRUE

\* _check_calls
check_calls(cs) == IF max_calls # 0 THEN Len(cs) < max_calls ELSE TRUE

\* _check_weight
check_weight(cs) == weight_left(cs) > 0

\* RateLimiter(max_weight, max_calls, period_length)
RateInit ==
    /\ FlockIdle
    /\ AioIdle
    /\ FutIdle
    /\ RegIdle
    /\ now = 0
    /\ period_length \in {1, 2}
    /\ max_weight \in {MaxWeight, MaxWeight + 1}
    /\ max_calls \in {0, 1, 2}
    /\ calls = <<>>
    /\ wait_lock = 0
    /\ rpc = [t \in Callers |-> "idle"]
    /\ rweight = [t \in Callers |-> 0]
    /\ wake = [t \in Callers |-> 0]
    /\ admitted = <<>>
    /\ rate_error = "none"

\* Thread t calls check_rate(weight) and reaches the with statement.
CheckRate(t, weight) ==
    /\ rpc[t] = "idle"
    /\ Len(admitted) + Cardinality({u \in Callers : rpc[u] # "idle"}) < MaxRateCalls
    /\ rpc' = [rpc EXCEPT ![t] = "lock"]
    /\ rweight' = [rweight EXCEPT ![t] = weight]
    /\ UNCHANGED <<now, period_length, max_weight, max_calls, calls, wait_lock, wake,
                   admitted, rate_error,
                   objvars, scopevars, scenvars, lifevars, hashvars, aiovars, futvars, regvars>>

\* with self._wait_lock: the lock is free and thread t takes it.
LockWait(t) ==
    /\ rpc[t] = "lock"
    /\ wait_lock = 0
    /\ wait_lock' = t
    /\ rpc' = [rpc EXCEPT ![t] = "check"]
    /\ UNCHANGED <<now, period_length, max_weight, max_calls, calls, rweight, wake,
                   admitted, rate_error,
                   objvars, scopevars, scenvars, lifevars, hashvars, aiovars, futvars, regvars>>

\* while not self._check_all(): expired calls are popped at the time read
\* now, then the number and the weight of the calls left are tested.
CheckAll(t) ==
    /\ rpc[t] = "check"
    /\ calls' = clean_calls(calls, now)
    /\ rpc' = [rpc EXCEPT ![t] = IF check_calls(calls') /\ check_weight(calls')
                                 THEN "append" ELSE "sleep"]
    /\ UNCHANGED <<now, period_length, max_weight, max_calls, wait_lock, rweight, wake,
                   admitted, rate_error,
                   objvars, scopevars, scenvars, lifevars, hashvars, aiovars, futvars, regvars>>

\* time.sleep(self._calls[0][1] - (time.time() - self._period_seconds)): the
\* length is computed at the time read now; a negative length makes
\* time.sleep raise ValueError, which leaves check_rate and frees the lock.
Sleep(t) ==
    /\ rpc[t] = "sleep"
    /\ LET length == calls[1][2] - (now - period_length) IN
           IF length < 0
           THEN /\ rate_error' = "ValueError"
                /\ wait_lock' = 0
                /\ rpc' = [rpc EXCEPT ![t] = "idle"]
                /\ UNCHANGED wake
           ELSE /\ wake' = [wake EXCEPT ![t] = now + length]
                /\ rpc' = [rpc EXCEPT ![t] = "sleeping"]
                /\ UNCHANGED <<rate_error, wait_lock>>
    /\ UNCHANGED <<now, period_length, max_weight, max_calls, calls, rweight, admitted,
                   objvars, scopevars, scenvars, lifevars, hashvars, aiovars, futvars, regvars>>

\* time.sleep returns, not before the time asked for.
Wake(t) ==
    /\ rpc[t] = "sleeping"
    /\ now >= wake[t]
    /\ rpc' = [rpc EXCEPT ![t] = "check"]
    /\ UNCHANGED <<now, period_length, max_weight, max_calls, calls, wait_lock, rweight,
                   wake, admitted, rate_error,
                   objvars, scopevars, scenvars, lifevars, hashvars, aiovars, futvars, regvars>>

\* self._calls.append((weight, time.time())), the lock is released and
\* check_rate returns: the call is admitted.
AppendCall(t) ==
    /\ rpc[t] = "append"
    /\ calls' = Append(calls, <<rweight[t], now>>)
    /\ admitted' = Append(admitted, <<rweight[t], now>>)
    /\ wait_lock' = 0
    /\ rpc' = [rpc EXCEPT ![t] = "idle"]
    /\ UNCHANGED <<now, period_length, max_weight, max_calls, rweight, wake, rate_error,
                   objvars, scopevars, scenvars, lifevars, hashvars, aiovars, futvars, regvars>>

\* The clock advances.
Tick ==
    /\ now < MaxTime
    /\ now' = now + 1
    /\ UNCHANGED <<period_length, max_weight, max_calls, calls, wait_lock, rpc, rweight,
                   wake, admitted, rate_error,
                   objvars, scopevars, scenvars, lifevars, hashvars, aiovars, futvars, regvars>>

RateNext ==
    \/ \E t \in Callers, weight \in Weights : CheckRate(t, weight)
    \/ \E t \in Callers : LockWait(t)
    \/ \E t \in Callers : CheckAll(t)
    \/ \E t \in Callers : Sleep(t)
    \/ \E t \in Callers : Wake(t)
    \/ \E t \in Callers : AppendCall(t)
    \/ Tick

RateSpec == RateInit /\ [][RateNext]_vars

\* ---------------------------------------------------- claims (RateSpec)
\* The admitted calls whose time lies in the window [x, x + period_length].
InWindow(x) == SelectSeq(admitted, LAMBDA c : x <= c[2] /\ c[2] <= x + period_length)

\* C24: with max_calls set, no window of length period_length holds more
\* than max_calls admitted calls.
C24_CallLimit ==
    max_calls # 0 => \A x \in 0..MaxTime : Len(InWindow(x)) <= max_calls

\* A call had to wait: max_calls calls were admitted at one time and the
\* next one was admitted only after their period had passed.
C24_Witness ==
    /\ max_calls = 2
    /\ Len(admitted) = 3
    /\ admitted[1][2] = admitted[2][2]
    /\ admitted[3][2] = admitted[1][2] + period_length + 1
    /\ Len(calls) = 1

\* C25: no window of length period_length holds admitted calls whose
\* weights sum to more than max_weight.
C25_WeightLimit ==
    \A x \in 0..MaxTime : sum_weights(InWindow(x)) <= max_weight

\* ----------------------------------------------------- claims (RawSpec)
\* Two values of one shape whose leaves contribute the same bytes: sequences
\* of one length with such elements, dicts of the same keys with such
\* values, and otherwise values with equal param_bytes.
RECURSIVE Twin(_, _)
Twin(v, w) ==
    IF is_sequence(v) /\ is_sequence(w)
    THEN /\ Len(v[2]) = Len(w[2])
         /\ \A i \in 1..Len(v[2]) : Twin(v[2][i], w[2][i])
    ELSE IF is_mapping(v) /\ is_mapping(w)
    THEN /\ Len(v[2]) = Len(w[2])
         /\ \A i \in 1..Len(v[2]) : v[2][i][1] = w[2][i][1] /\ Twin(v[2][i][2], w[2][i][2])
    ELSE param_bytes(v)[1] = "return" /\ param_bytes(v) = param_bytes(w)

\* The runtime type names of a value and of the values nested in it.
RECURSIVE TypeTree(_)
TypeTree(v) ==
    IF is_sequence(v)
    THEN <<type_name(v), [i \in 1..Len(v[2]) |-> TypeTree(v[2][i])]>>
    ELSE IF is_mapping(v)
    THEN <<type_name(v), [i \in 1..Len(v[2]) |-> TypeTree(v[2][i][2])]>>
    ELSE <<type_name(v)>>

\* Two invocations whose values correspond and have equal byte contributions.
TwinInv(a, b) ==
    /\ Len(a[1]) = Len(b[1])
    /\ \A i \in 1..Len(a[1]) : Twin(a[1][i], b[1][i])
    /\ Len(a[2]) = Len(b[2])
    /\ \A i \in 1..Len(a[2]) : a[2][i][1] = b[2][i][1] /\ Twin(a[2][i][2], b[2][i][2])

\* The type names of the values of an invocation.
TypesInv(a) ==
    <<[i \in 1..Len(a[1]) |-> TypeTree(a[1][i])],
      [i \in 1..Len(a[2]) |-> TypeTree(a[2][i][2])]>>

\* C27 (as claimed): with type_name_dependence set, two invocations whose
\* values have equal byte contributions and differ in a type name, at top
\* level or nested, get different digests; with it off they get the same.
C27_TypeNameMixing ==
    (BothReturned /\ TwinInv(arg[1], arg[2])) =>
        IF type_name_dependence
        THEN TypesInv(arg[1]) # TypesInv(arg[2]) => out[1] # out[2]
        ELSE out[1] = out[2]

\* ---------------------------------------------------- claims (PathSpec)
\* C26 (as claimed): FileLock(P) operates on P with ".lock" appended, a lock
\* file that no other target path gives.
C26_LockFileDerivation ==
    [][\A t \in Threads, P \in AllPaths :
          Construct(t, P) =>
              /\ file_path'[nobjs'] = P \o <<"lock">>
              /\ \A Q \in AllPaths : Q # P => with_suffix(Q, "lock") # file_path'[nobjs']
      ]_vars

\* C30 (as claimed): pickling an acquired handle raises; the handle made by
\* unpickling an unacquired one has its lock file and its configured mode.
C30_PickleRoundTrip ==
    [][\A t \in Threads, o \in Objs, u \in Threads :
          Pickle(t, o, u) =>
              IF fd[o] # None
              THEN error' = Raised("reduce", "ValueError_acquired") /\ nobjs' = nobjs
              ELSE /\ file_path'[nobjs'] = file_path[o]
                   /\ lock_code'[nobjs'] = lock_code[o]
                   /\ fd'[nobjs'] = None
      ]_vars

OnlyCaller(t, h) ==
    /\ \A o \in 1..nobjs :
           (owner[o] # t /\ file_path[o] = file_path[h]) => (fd[o] = None /\ pc[o] = "idle")
    /\ \A m \in LockCodes : orphans[<<file_path[h], m>>] = 0

\* C29 (as claimed): a caller that holds the lock through one handle of a
\* FileLock object is not kept waiting in acquire() on a read_lock handle
\* of the same object while nobody else holds or requests the lock.
C29_NoSelfDeadlock ==
    \A a \in 1..nobjs, b \in 1..nobjs :
        ( /\ SameChain(a, b)
          /\ Holds(a) /\ held[a] \in LockCodes
          /\ lock_code[b] = LOCK_SH
          /\ \A o \in 1..nobjs :
                 (owner[o] = owner[a] /\ o # b /\ fd[o] # None) => chain[o] = chain[a]
          /\ OnlyCaller(owner[a], a) )
        => pc[b] # "waiting"

====
